---- MODULE Spec2Model ----
(***************************************************************************)
(* A model of trunk/src/advect.cpp: the advection step of the 2D smoke     *)
(* solver.  Field samples are exact rationals <<numerator, denominator>>   *)
(* (denominator > 0, lowest terms), so the arithmetic of the kernels is    *)
(* the real-number arithmetic the double code approximates.                *)
(***************************************************************************)
EXTENDS Integers, Sequences, FiniteSets, TLC

\* ------------------------------------------------------------------------
\* Bounds of the model
\* ------------------------------------------------------------------------
\* Largest grid resolution (n and cn range over 2..MaxN in the value-level
\* specification, over 1..MaxN in the memory-level one).
MaxN == 2
\* Largest sample drawn for the 4-sample stencil of the 1D cubic kernels.
MaxSample == 6
\* Number of consecutive advect calls followed by the memory-level
\* specification.
MaxCalls == 2

\* ------------------------------------------------------------------------
\* Exact rational arithmetic (what "double" stands for)
\* ------------------------------------------------------------------------
Abs(a) == IF a < 0 THEN -a ELSE a

RECURSIVE GCD(_, _)
GCD(a, b) == IF b = 0 THEN a ELSE GCD(b, a % b)

\* num/den with the common factor g taken out and the sign on the numerator.
Reduced(num, den, g) ==
  IF den < 0 THEN <<-(num \div g), -(den \div g)>> ELSE <<num \div g, den \div g>>

Norm(num, den) ==
  IF num = 0 THEN <<0, 1>> ELSE Reduced(num, den, GCD(Abs(num), Abs(den)))

R(i) == <<i, 1>>
Frac(a, b) == Norm(a, b)
\* Sums go through the least common denominator (g is the common factor of
\* the two denominators) and products cancel crosswise first, so that
\* intermediate integers stay small.
AddOver(a, b, g) ==
  Norm(a[1] * (b[2] \div g) + b[1] * (a[2] \div g), (a[2] \div g) * b[2])
RAdd(a, b) == AddOver(a, b, GCD(a[2], b[2]))
RNeg(a) == <<-a[1], a[2]>>
RSub(a, b) == RAdd(a, RNeg(b))
\* The product once g1 (of a's numerator and b's denominator) and g2 (of b's
\* numerator and a's denominator) are cancelled.
MulCancelled(a, b, g1, g2) ==
  <<(a[1] \div g1) * (b[1] \div g2), (a[2] \div g2) * (b[2] \div g1)>>
\* A product with a zero left factor is zero whatever the (finite) right
\* factor is; the right factor is then not evaluated.
RMul(a, b) ==
  IF a[1] = 0 THEN <<0, 1>>
  ELSE IF b[1] = 0 THEN <<0, 1>>
  ELSE MulCancelled(a, b, GCD(Abs(a[1]), b[2]), GCD(Abs(b[1]), a[2]))
RInv(b) == IF b[1] < 0 THEN <<-b[2], -b[1]>> ELSE <<b[2], b[1]>>
RDiv(a, b) == RMul(a, RInv(b))
\* a < b and a <= b, compared over the least common denominator.
LtOver(a, b, g) == a[1] * (b[2] \div g) < b[1] * (a[2] \div g)
RLt(a, b) == LtOver(a, b, GCD(a[2], b[2]))
RLe(a, b) == ~RLt(b, a)
RMin(a, b) == IF RLt(a, b) THEN a ELSE b
RMax(a, b) == IF RLt(b, a) THEN a ELSE b
\* The C cast (int)x: truncation toward zero.
RTrunc(a) == IF a[1] >= 0 THEN a[1] \div a[2] ELSE -((-a[1]) \div a[2])
IMin(a, b) == IF a < b THEN a ELSE b
IMax(a, b) == IF a > b THEN a ELSE b
\* The comparisons (u>0) and (u<0) used as the factors 1 and 0.
Pos(u) == IF u[1] > 0 THEN R(1) ELSE R(0)
Neg(u) == IF u[1] < 0 THEN R(1) ELSE R(0)

\* ------------------------------------------------------------------------
\* 1D kernels
\* ------------------------------------------------------------------------
\* a3*x*x*x + a2*x*x + a1*x + a0
CubicPoly(a3, a2, a1, a0, x) ==
  RAdd(RAdd(RAdd(RMul(RMul(RMul(a3, x), x), x), RMul(RMul(a2, x), x)), RMul(a1, x)), a0)

\* The slope d0 (or d2) after the if/else on d1: 0.0 when d1 is zero, and
\* p*fabs(d) with p the sign of d1 otherwise.
MonotoneSlope(d1, d) ==
  IF d1[1] = 0 THEN R(0)
  ELSE RMul(IF d1[1] > 0 THEN R(1) ELSE R(-1), IF d[1] < 0 THEN RNeg(d) ELSE d)

\* a3 = d2+d0, a2 = -d2-2.0*d0, a1 = d1+d0 and the polynomial on them.
MonotoneCubic(d0, d1, d2, a0, x) ==
  CubicPoly(RAdd(d2, d0), RSub(RNeg(d2), RMul(R(2), d0)), RAdd(d1, d0), a0, x)

\* monotonic_cubic_4: a is the 4-sample stencil a[0..3] (here a[1..4]).
monotonic_cubic_4(a, x) ==
  MonotoneCubic(MonotoneSlope(RSub(a[3], a[2]), RSub(a[2], a[1])),
                RSub(a[3], a[2]),
                MonotoneSlope(RSub(a[3], a[2]), RSub(a[4], a[3])),
                a[2], x)

\* alpha[i] = 3.0*(a[i+1] - a[i]) - 3.0*(a[i] - a[i-1])
SplineAlpha(lo, mid, hi) ==
  RSub(RMul(R(3), RSub(hi, mid)), RMul(R(3), RSub(mid, lo)))

\* b[1] = a[2] - a[1] - (c[2] + 2.0*c[1])/3.0, d[1] = (c[2] - c[1])/3.0 and
\* min(maxv, max(minv, a[1] + b[1]*x + c[1]*x*x + d[1]*x*x*x)).
SplineEval(a, x, c1, c2) ==
  RMin(RMax(a[3], a[2]),
       RMax(RMin(a[2], a[3]),
            RAdd(RAdd(RAdd(a[2],
                   RMul(RSub(RSub(a[3], a[2]), RDiv(RAdd(c2, RMul(R(2), c1)), R(3))), x)),
                   RMul(RMul(c1, x), x)),
                 RMul(RMul(RMul(RDiv(RSub(c2, c1), R(3)), x), x), x))))

\* The backward loop: c[1] = z[1] - mu[1]*c[2].
SplineBack(a, x, mu1, z1, c2) == SplineEval(a, x, RSub(z1, RMul(mu1, c2)), c2)

\* The forward loop at i = 2 and the backward loop at j = 2:
\* mu[2] = 1.0/l[2], z[2] = (alpha[2] - z[1])/l[2], c[2] = z[2] - mu[2]*c[3]
\* with c[3] = 0.0.
SplineForward2(a, x, mu1, z1, l2) ==
  SplineBack(a, x, mu1, z1,
             RSub(RDiv(RSub(SplineAlpha(a[2], a[3], a[4]), z1), l2),
                  RMul(RDiv(R(1), l2), R(0))))

\* The forward loop at i = 1 has set mu[1] and z[1]; l[2] = 4.0 - mu[1].
SplineForward1(a, x, mu1, z1) == SplineForward2(a, x, mu1, z1, RSub(R(4), mu1))

\* spline_cubic: natural cubic spline through a[0..3] by Thomas elimination,
\* evaluated on the middle interval and clamped to its two end samples.
\* l[1] = 4.0 - mu[0], mu[1] = 1.0/l[1], z[1] = (alpha[1] - z[0])/l[1] with
\* mu[0] = z[0] = 0.0.
spline_cubic(a, x) ==
  SplineForward1(a, x, RDiv(R(1), RSub(R(4), R(0))),
                 RDiv(RSub(SplineAlpha(a[1], a[2], a[3]), R(0)), RSub(R(4), R(0))))

\* ------------------------------------------------------------------------
\* Grids and the 2D interpolation kernels
\* ------------------------------------------------------------------------
\* A grid is a function on index pairs <<i, j>>, read as d[i][j].
Cells(w, h) == (0 .. (w - 1)) \X (0 .. (h - 1))
\* An array held in memory: every element is computed once, when the array
\* is written, and not again on each read.
Stored(f) == f @@ <<>>
\* The statements of a function body run in order: v is computed by an
\* earlier statement than the ones that compute r from it.
After(v, r) == <<v, r>>[2]
\* alloc2D(n): an n x n grid of zeros.
alloc2D(m) == Stored([p \in Cells(m, m) |-> R(0)])
\* x = max(0.0, min(width, x))
Clamp0(w, x) == RMax(R(0), RMin(R(w), x))
\* The index min(width-1, max(0, h)) of the 4x4 gathers.
ClampIdx(w, h) == IMin(w - 1, IMax(0, h))
\* The base index int i = min(x, width-2) of linear_interpolate.
LinearBase(w, x) == RTrunc(RMin(x, R(w - 2)))

\* The 1D kernel the 4x4 gather of monotonic_cubic or of spline_interpolate
\* applies.
Kernel1D(kind, a, t) ==
  After(a, IF kind = "monotonic" THEN monotonic_cubic_4(a, t) ELSE spline_cubic(a, t))

\* f[4*j+i] = d[min(width-1,max(0,h))][min(height-1,max(0,v))] with
\* h = (int)x - 1 + i and v = (int)y - 1 + j, for i = 0..3 (here 1..4).
GatherRow(d, width, height, ix, iy, j) ==
  << d[<<ClampIdx(width, ix - 1), ClampIdx(height, iy - 2 + j)>>],
     d[<<ClampIdx(width, ix), ClampIdx(height, iy - 2 + j)>>],
     d[<<ClampIdx(width, ix + 1), ClampIdx(height, iy - 2 + j)>>],
     d[<<ClampIdx(width, ix + 2), ClampIdx(height, iy - 2 + j)>>] >>

\* xn[j] = kernel(&f[4*j], x - (int)x) for the four rows, then
\* kernel(xn, y - (int)y).
GatherRows(kind, d, width, height, ix, iy, fx, fy) ==
  Kernel1D(kind,
           Stored([j \in 1..4 |->
                     Kernel1D(kind, GatherRow(d, width, height, ix, iy, j), fx)]),
           fy)

\* The gather at the clamped point (x, y).
GatherAt(kind, d, width, height, x, y) ==
  After(<<x, y>>,
        GatherRows(kind, d, width, height, RTrunc(x), RTrunc(y),
                   RSub(x, R(RTrunc(x))), RSub(y, R(RTrunc(y)))))

\* The body shared by monotonic_cubic and spline_interpolate:
\* x = max(0.0,min(width,x)), y = max(0.0,min(height,y)), then the gather.
Gather4(kind, d, width, height, x0, y0) ==
  GatherAt(kind, d, width, height, Clamp0(width, x0), Clamp0(height, y0))

monotonic_cubic(d, width, height, x, y) ==
  Gather4("monotonic", d, width, height, x, y)

spline_interpolate(d, width, height, x, y) ==
  Gather4("spline", d, width, height, x, y)

\* The blend with the two weights of each pair swapped.
LinearBlendSwapped(d, x, y, i, j) ==
  RAdd(RMul(RAdd(RMul(RSub(x, R(i)), d[<<i, j>>]),
                 RMul(RSub(R(i + 1), x), d[<<i + 1, j>>])), RSub(y, R(j))),
       RMul(RAdd(RMul(RSub(x, R(i)), d[<<i, j + 1>>]),
                 RMul(RSub(R(i + 1), x), d[<<i + 1, j + 1>>])), RSub(R(j + 1), y)))

\* ((i+1-x)*d[i][j]+(x-i)*d[i+1][j])*(j+1-y)
\*   + ((i+1-x)*d[i][j+1]+(x-i)*d[i+1][j+1])*(y-j)
LinearBlend(d, x, y, i, j) ==
  RAdd(RMul(RAdd(RMul(RSub(R(i + 1), x), d[<<i, j>>]),
                 RMul(RSub(x, R(i)), d[<<i + 1, j>>])), RSub(R(j + 1), y)),
       RMul(RAdd(RMul(RSub(R(i + 1), x), d[<<i, j + 1>>]),
                 RMul(RSub(x, R(i)), d[<<i + 1, j + 1>>])), RSub(y, R(j))))

\* int i = min(x,width-2); int j = min(y,height-2) on the clamped x, y.
LinearAt(d, width, height, x, y) ==
  After(<<x, y>>, LinearBlend(d, x, y, LinearBase(width, x), LinearBase(height, y)))

linear_interpolate(d, width, height, x0, y0) ==
  LinearAt(d, width, height, Clamp0(width, x0), Clamp0(height, y0))

\* A call through the function pointer interp_func.
CallInterp(kernel, d, width, height, x, y) ==
  CASE kernel = "linear_interpolate" -> linear_interpolate(d, width, height, x, y)
    [] kernel = "spline_interpolate" -> spline_interpolate(d, width, height, x, y)
    [] kernel = "monotonic_cubic"    -> monotonic_cubic(d, width, height, x, y)

\* ------------------------------------------------------------------------
\* Spatial schemes
\* ------------------------------------------------------------------------
square(x) == RMul(x, x)

\* double e = 1.0e-6
WenoEps == Frac(1, 1000000)

\* w1 = w1/s, w2 = w2/s, w3 = w3/s and the returned combination.
WenoBlend(v1, v2, v3, v4, v5, w1, w2, w3, s) ==
  RDiv(RAdd(RAdd(
    RMul(RDiv(w1, s), RAdd(RSub(RMul(R(2), v1), RMul(R(7), v2)), RMul(R(11), v3))),
    RMul(RDiv(w2, s), RAdd(RAdd(RNeg(v2), RMul(R(5), v3)), RMul(R(2), v4)))),
    RMul(RDiv(w3, s), RSub(RAdd(RMul(R(2), v3), RMul(R(5), v4)), v5))), R(6))

\* s = w1+w2+w3
WenoWeights(v1, v2, v3, v4, v5, w1, w2, w3) ==
  WenoBlend(v1, v2, v3, v4, v5, w1, w2, w3, RAdd(RAdd(w1, w2), w3))

\* The smoothness indicators r1, r2, r3 and the weights 0.1/square(e+r1),
\* 0.6/square(e+r2), 0.3/square(e+r3).
weno5calc(v1, v2, v3, v4, v5) ==
  WenoWeights(v1, v2, v3, v4, v5,
    RDiv(Frac(1, 10), square(RAdd(WenoEps,
      RAdd(RDiv(RMul(R(13), square(RAdd(RSub(v1, RMul(R(2), v2)), v3))), R(12)),
           RDiv(square(RAdd(RSub(v1, RMul(R(4), v2)), RMul(R(3), v3))), R(4)))))),
    RDiv(Frac(6, 10), square(RAdd(WenoEps,
      RAdd(RDiv(RMul(R(13), square(RAdd(RSub(v2, RMul(R(2), v3)), v4))), R(12)),
           RDiv(square(RSub(v2, v4)), R(4)))))),
    RDiv(Frac(3, 10), square(RAdd(WenoEps,
      RAdd(RDiv(RMul(R(13), square(RAdd(RSub(v3, RMul(R(2), v4)), v5))), R(12)),
           RDiv(square(RAdd(RSub(RMul(R(3), v3), RMul(R(4), v4)), v5)), R(4)))))))

weno5(u, d0, d1, d2, d3, d4, d5, d6) ==
  RMul(RNeg(u),
       RAdd(RMul(Pos(u), weno5calc(RSub(d1, d0), RSub(d2, d1), RSub(d3, d2),
                                   RSub(d4, d3), RSub(d5, d4))),
            RMul(Neg(u), weno5calc(RSub(d6, d5), RSub(d5, d4), RSub(d4, d3),
                                   RSub(d3, d2), RSub(d2, d1)))))

\* -u*( 0.5*(d3-d1) + (u>0)*(d4-3*d3+3*d2-d1)/8 + (u<0)*(d3-3*d2+3*d1-d0)/8 )
QUICK(u, d0, d1, d2, d3, d4) ==
  RMul(RNeg(u),
       RAdd(RAdd(RMul(Frac(1, 2), RSub(d3, d1)),
                 RDiv(RMul(Pos(u), RSub(RAdd(RSub(d4, RMul(R(3), d3)), RMul(R(3), d2)), d1)),
                      R(8))),
            RDiv(RMul(Neg(u), RSub(RAdd(RSub(d3, RMul(R(3), d2)), RMul(R(3), d1)), d0)),
                 R(8))))

Upwind(u, d2, d3, d4) ==
  RMul(RNeg(u), RAdd(RMul(Pos(u), RSub(d3, d2)), RMul(Neg(u), RSub(d4, d3))))

\* The switch of advdiff with its default case taken for the Upwind one.
advdiff_default_upwind(method, u, d0, d1, d2, d3, d4, d5, d6) ==
  CASE method = 1 -> weno5(u, d0, d1, d2, d3, d4, d5, d6)
    [] method = 2 -> QUICK(u, d1, d2, d3, d4, d5)
    [] OTHER -> Upwind(u, d2, d3, d4)

\* advdiff: dd = 0.0 unless the switch matches case 0, 1 or 2.
advdiff(method, u, d0, d1, d2, d3, d4, d5, d6) ==
  CASE method = 0 -> Upwind(u, d2, d3, d4)
    [] method = 1 -> weno5(u, d0, d1, d2, d3, d4, d5, d6)
    [] method = 2 -> QUICK(u, d1, d2, d3, d4, d5)
    [] OTHER -> R(0)

\* ------------------------------------------------------------------------
\* Field samplers (they read the globals gu, gc, gn, gcn)
\* ------------------------------------------------------------------------
\* A velocity sampler that returns 0.0 outside the grid, the way c_ref does.
u_ref_zero_outside(gu, gn, dir, i, j) ==
  IF dir = 0
  THEN IF i < 0 \/ i > gn \/ j < 0 \/ j > gn - 1 THEN R(0) ELSE gu[1][<<i, j>>]
  ELSE IF i < 0 \/ i > gn - 1 \/ j < 0 \/ j > gn THEN R(0) ELSE gu[2][<<i, j>>]

\* gu[1] models gu[0] (x-velocity), gu[2] models gu[1] (y-velocity).
u_ref(gu, gn, dir, i, j) ==
  IF dir = 0
  THEN gu[1][<<IMax(0, IMin(gn, i)), IMax(0, IMin(gn - 1, j))>>]
  ELSE gu[2][<<IMax(0, IMin(gn - 1, i)), IMax(0, IMin(gn, j))>>]

c_ref(gc, gcn, i, j) ==
  IF i < 0 \/ i > gcn - 1 \/ j < 0 \/ j > gcn - 1 THEN R(0) ELSE gc[<<i, j>>]

\* ------------------------------------------------------------------------
\* Loops and array helpers of utility.h
\* ------------------------------------------------------------------------
\* FOR_EVERY_X_FLOW(n), FOR_EVERY_Y_FLOW(n), FOR_EVERY_CELL(n): the index
\* pairs of the x-velocity, y-velocity and cell-centred grids.
FOR_EVERY_X_FLOW(n) == Cells(n + 1, n)
FOR_EVERY_Y_FLOW(n) == Cells(n, n + 1)
FOR_EVERY_CELL(n) == Cells(n, n)

\* A loop storing f[i, j] into d[i][j] for every index pair of the loop.
Store(d, f) == Stored(f) @@ d

\* op2D(out, src0, src1, a, b, n): out = a*src0 + b*src1 on the samples of
\* the field.
op2D(out, src0, src1, a, b) ==
  Stored([p \in DOMAIN out |->
     IF p \in DOMAIN src0 /\ p \in DOMAIN src1
     THEN RAdd(RMul(a, src0[p]), RMul(b, src1[p])) ELSE out[p]])

\* copy2D(dst, src, n): dst = src on the samples of the field.
copy2D(dst, src) ==
  Stored([p \in DOMAIN dst |-> IF p \in DOMAIN src THEN src[p] ELSE dst[p]])

\* A static array that is allocated by its initialiser on the first call only.
StaticInit(cur, fresh) == IF cur = <<>> THEN fresh ELSE cur

\* ------------------------------------------------------------------------
\* Eulerian step
\* ------------------------------------------------------------------------
Avg4(a, b, c, d) == RDiv(RAdd(RAdd(RAdd(a, b), c), d), R(4))
Half(a, b) == RAdd(RMul(Frac(1, 2), a), RMul(Frac(1, 2), b))

\* The cell-centred projection loop shared by both steps.
ProjectCells(up, u, n) ==
  << Store(up[1], [<<i, j>> \in FOR_EVERY_CELL(n) |-> Half(u[1][<<i, j>>], u[1][<<i + 1, j>>])]),
     Store(up[2], [<<i, j>> \in FOR_EVERY_CELL(n) |-> Half(u[2][<<i, j>>], u[2][<<i, j + 1>>])]) >>

\* The body of the "Advect X Flow" loop: out[0][i][j].
XFlowCell(method, u, gu, n, i, j) ==
  RAdd(RMul(advdiff(method, u[1][<<i, j>>],
                    u_ref(gu, n, 0, i - 3, j), u_ref(gu, n, 0, i - 2, j),
                    u_ref(gu, n, 0, i - 1, j), u_ref(gu, n, 0, i, j),
                    u_ref(gu, n, 0, i + 1, j), u_ref(gu, n, 0, i + 2, j),
                    u_ref(gu, n, 0, i + 3, j)), R(n)),
       RMul(advdiff(method,
                    Avg4(u_ref(gu, n, 1, i - 1, j), u_ref(gu, n, 1, i, j),
                         u_ref(gu, n, 1, i - 1, j + 1), u_ref(gu, n, 1, i, j + 1)),
                    u_ref(gu, n, 0, i, j - 3), u_ref(gu, n, 0, i, j - 2),
                    u_ref(gu, n, 0, i, j - 1), u_ref(gu, n, 0, i, j),
                    u_ref(gu, n, 0, i, j + 1), u_ref(gu, n, 0, i, j + 2),
                    u_ref(gu, n, 0, i, j + 3)), R(n)))

\* The body of the "Advect Y Flow" loop: out[1][i][j].
YFlowCell(method, u, gu, n, i, j) ==
  RAdd(RMul(advdiff(method,
                    Avg4(u_ref(gu, n, 0, i, j - 1), u_ref(gu, n, 0, i, j),
                         u_ref(gu, n, 0, i + 1, j), u_ref(gu, n, 0, i + 1, j - 1)),
                    u_ref(gu, n, 1, i - 3, j), u_ref(gu, n, 1, i - 2, j),
                    u_ref(gu, n, 1, i - 1, j), u_ref(gu, n, 1, i, j),
                    u_ref(gu, n, 1, i + 1, j), u_ref(gu, n, 1, i + 2, j),
                    u_ref(gu, n, 1, i + 3, j)), R(n)),
       RMul(advdiff(method, u[2][<<i, j>>],
                    u_ref(gu, n, 1, i, j - 3), u_ref(gu, n, 1, i, j - 2),
                    u_ref(gu, n, 1, i, j - 1), u_ref(gu, n, 1, i, j),
                    u_ref(gu, n, 1, i, j + 1), u_ref(gu, n, 1, i, j + 2),
                    u_ref(gu, n, 1, i, j + 3)), R(n)))

\* The body of the "Advect Concentration" loop: out[2][i][j], with
\* x = i*n/(double)cn, y = j*n/(double)cn and v from linear_interpolate.
ConcCell(method, up, gc, n, cn, i, j) ==
  RAdd(RMul(advdiff(method,
                    linear_interpolate(up[1], n, n, Frac(i * n, cn), Frac(j * n, cn)),
                    c_ref(gc, cn, i - 3, j), c_ref(gc, cn, i - 2, j),
                    c_ref(gc, cn, i - 1, j), c_ref(gc, cn, i, j),
                    c_ref(gc, cn, i + 1, j), c_ref(gc, cn, i + 2, j),
                    c_ref(gc, cn, i + 3, j)), R(cn)),
       RMul(advdiff(method,
                    linear_interpolate(up[2], n, n, Frac(i * n, cn), Frac(j * n, cn)),
                    c_ref(gc, cn, i, j - 3), c_ref(gc, cn, i, j - 2),
                    c_ref(gc, cn, i, j - 1), c_ref(gc, cn, i, j),
                    c_ref(gc, cn, i, j + 1), c_ref(gc, cn, i, j + 2),
                    c_ref(gc, cn, i, j + 3)), R(cn)))

\* The three advection loops, once the projection loop has written up.
DiffFields(method, u, gu, gc, n, cn, out, up) ==
  [up |-> up,
   out |-> << Store(out[1], [<<i, j>> \in FOR_EVERY_X_FLOW(n) |->
                               XFlowCell(method, u, gu, n, i, j)]),
              Store(out[2], [<<i, j>> \in FOR_EVERY_Y_FLOW(n) |->
                               YFlowCell(method, u, gu, n, i, j)]),
              Store(out[3], [<<i, j>> \in FOR_EVERY_CELL(cn) |->
                               ConcCell(method, up, gc, n, cn, i, j)]) >>]

\* advect_diff( method, u, c, n, cn, out, dt ): the transport velocities come
\* from the argument u; the stencils come from u_ref and c_ref, which read
\* the globals gu and gc.  up0 is the function's static up[2].
advect_diff(method, u, c, gu, gc, n, cn, out, up0) ==
  DiffFields(method, u, gu, gc, n, cn, out,
             ProjectCells(StaticInit(up0, <<alloc2D(n), alloc2D(n)>>), u, n))

\* ------------------------------------------------------------------------
\* Semi-Lagrangian and MacCormack steps
\* ------------------------------------------------------------------------
\* dt*gn*u
Travel(dt, gn, v) == RMul(RMul(dt, R(gn)), v)

\* semiLagrangian: d[i][j] = interp_func(d0, w, h, i-gn*u[0][i][j]*dt, j-gn*u[1][i][j]*dt)
semiLagrangian(kernel, d, d0, width, height, u, dt, gn) ==
  Store(After(u, d), [<<i, j>> \in Cells(width, height) |->
    CallInterp(kernel, d0, width, height,
               RSub(R(i), RMul(RMul(R(gn), u[1][<<i, j>>]), dt)),
               RSub(R(j), RMul(RMul(R(gn), u[2][<<i, j>>]), dt)))])

\* The backward-traced point of cell (i, j), clamped to the grid:
\* x = min(width-1, max(0.0, i-dt*gn*u[0][i][j])), and y alike.
MacPoint(width, height, u, dt, gn, i, j) ==
  << RMin(R(width - 1), RMax(R(0), RSub(R(i), Travel(dt, gn, u[1][<<i, j>>])))),
     RMin(R(height - 1), RMax(R(0), RSub(R(j), Travel(dt, gn, u[2][<<i, j>>])))) >>

\* int i0 = min(width-2, max(0, (int)x))
MacBase(width, x) == IMin(width - 2, IMax(0, RTrunc(x)))

\* d0[i0][j0], d0[i1][j0], d0[i0][j1], d0[i1][j1] with i1 = i0+1, j1 = j0+1.
MacCorners(d0, i0, j0) ==
  <<d0[<<i0, j0>>], d0[<<i0 + 1, j0>>], d0[<<i0, j0 + 1>>], d0[<<i0 + 1, j0 + 1>>]>>

\* The four previous-field samples around the traced point.
MacNeighbours(d0, width, height, pt) ==
  MacCorners(d0, MacBase(width, pt[1]), MacBase(height, pt[2]))

\* r = phi_n_1_hat + 0.5*( d0[i][j] - phi_n_hat ) at the traced point pt:
\* phi_n_1_hat, u_hat, v_hat are interpolated at pt, phi_n_hat at
\* (x + dt*gn*u_hat, y + dt*gn*v_hat).
MacCorrectionAt(kernel, d0, width, height, u, dt, gn, i, j, pt) ==
  RAdd(CallInterp(kernel, d0, width, height, pt[1], pt[2]),
       RMul(Frac(1, 2),
            RSub(d0[<<i, j>>],
                 CallInterp(kernel, d0, width, height,
                   RAdd(pt[1], Travel(dt, gn,
                          CallInterp(kernel, u[1], width, height, pt[1], pt[2]))),
                   RAdd(pt[2], Travel(dt, gn,
                          CallInterp(kernel, u[2], width, height, pt[1], pt[2])))))))

MacCorrection(kernel, d0, width, height, u, dt, gn, i, j) ==
  MacCorrectionAt(kernel, d0, width, height, u, dt, gn, i, j,
                  MacPoint(width, height, u, dt, gn, i, j))

\* The body of the maccormack loop that stores r itself.
maccormack_cell_unclamped(kernel, d0, width, height, u, dt, gn, i, j) ==
  MacCorrection(kernel, d0, width, height, u, dt, gn, i, j)

\* max( min(r, max_phi), min_phi ) over the four samples nb.
MacClamp(r, nb) ==
  RMax(RMin(r, RMax(RMax(RMax(nb[1], nb[2]), nb[3]), nb[4])),
       RMin(RMin(RMin(nb[1], nb[2]), nb[3]), nb[4]))

\* The body of the maccormack loop: d[i][j] = max( min(r, max_phi), min_phi )
maccormack_cell(kernel, d0, width, height, u, dt, gn, i, j) ==
  MacClamp(MacCorrection(kernel, d0, width, height, u, dt, gn, i, j),
           MacNeighbours(d0, width, height, MacPoint(width, height, u, dt, gn, i, j)))

maccormack(kernel, d, d0, width, height, u, dt, gn) ==
  Store(After(u, d), [<<i, j>> \in Cells(width, height) |->
    maccormack_cell(kernel, d0, width, height, u, dt, gn, i, j)])

\* A "Set Strategy" switch that leaves interp_func alone.
StrategyKernelKept(method, kernel) == kernel

\* The kernel interp_func points to once the "Set Strategy" switch has run.
StrategyKernel(method, kernel) == IF method = 4 THEN "spline_interpolate" ELSE kernel
\* int order = 1, raised to 2 by case 4 only.
StrategyOrder(method) == IF method = 4 THEN 2 ELSE 1

\* The FOR_EVERY_X_FLOW loop: ux[0][i][j] = u[0][i][j] and ux[1][i][j] the
\* average of four u_ref(1, ..).
FlowAtX(ux0, u, gu, n) ==
  << Store(ux0[1], [<<i, j>> \in FOR_EVERY_X_FLOW(n) |-> u[1][<<i, j>>]]),
     Store(ux0[2], [<<i, j>> \in FOR_EVERY_X_FLOW(n) |->
       Avg4(u_ref(gu, n, 1, i - 1, j), u_ref(gu, n, 1, i, j),
            u_ref(gu, n, 1, i - 1, j + 1), u_ref(gu, n, 1, i, j + 1))]) >>

\* The FOR_EVERY_Y_FLOW loop: uy[0][i][j] the average of four u_ref(0, ..)
\* and uy[1][i][j] = u[1][i][j].
FlowAtY(uy0, u, gu, n) ==
  << Store(uy0[1], [<<i, j>> \in FOR_EVERY_Y_FLOW(n) |->
       Avg4(u_ref(gu, n, 0, i, j - 1), u_ref(gu, n, 0, i, j),
            u_ref(gu, n, 0, i + 1, j), u_ref(gu, n, 0, i + 1, j - 1))]),
     Store(uy0[2], [<<i, j>> \in FOR_EVERY_Y_FLOW(n) |-> u[2][<<i, j>>]]) >>

\* The FOR_EVERY_CELL(cn) loop: uc[q][i][j] = interp_func( up[q], n, n, x, y )
\* with x = i*n/(double)cn, y = j*n/(double)cn.
FlowAtCells(kernel, uc0, up, n, cn) ==
  << Store(uc0[1], [<<i, j>> \in FOR_EVERY_CELL(cn) |->
       CallInterp(kernel, up[1], n, n, Frac(i * n, cn), Frac(j * n, cn))]),
     Store(uc0[2], [<<i, j>> \in FOR_EVERY_CELL(cn) |->
       CallInterp(kernel, up[2], n, n, Frac(i * n, cn), Frac(j * n, cn))]) >>

\* The three back-traces of the order chosen, on the velocities ux, uy, uc.
BackTraceFields(kernel, order, u, c, n, cn, out, dt, ux, uy, up, uc) ==
  [st |-> [ux |-> ux, uy |-> uy, up |-> up, uc |-> uc],
   out |-> IF order = 1
           THEN << semiLagrangian(kernel, out[1], u[1], n + 1, n, ux, dt, n),
                   semiLagrangian(kernel, out[2], u[2], n, n + 1, uy, dt, n),
                   semiLagrangian(kernel, out[3], c, cn, cn, uc, dt, n) >>
           ELSE << maccormack(kernel, out[1], u[1], n + 1, n, ux, dt, n),
                   maccormack(kernel, out[2], u[2], n, n + 1, uy, dt, n),
                   maccormack(kernel, out[3], c, cn, cn, uc, dt, n) >>,
   kernel |-> kernel]

\* The velocity at the concentration cell centres, from the projection up.
BackTraceCells(kernel, order, u, c, n, cn, out, dt, uc0, ux, uy, up) ==
  BackTraceFields(kernel, order, u, c, n, cn, out, dt, ux, uy, up,
                  FlowAtCells(kernel, uc0, up, n, cn))

\* advect_semiLagrangian( method, u, c, n, cn, out, dt ).  st holds the
\* function's statics ux, uy, up, uc; kernel0 is interp_func on entry.
advect_semiLagrangian(method, u, c, gu, n, cn, out, dt, st, kernel0) ==
  BackTraceCells(StrategyKernel(method, kernel0), StrategyOrder(method),
                 u, c, n, cn, out, dt,
                 StaticInit(st.uc, <<alloc2D(cn), alloc2D(cn)>>),
                 FlowAtX(StaticInit(st.ux, <<alloc2D(n + 1), alloc2D(n + 1)>>), u, gu, n),
                 FlowAtY(StaticInit(st.uy, <<alloc2D(n + 1), alloc2D(n + 1)>>), u, gu, n),
                 ProjectCells(StaticInit(st.up, <<alloc2D(n), alloc2D(n)>>), u, n))

\* ------------------------------------------------------------------------
\* advect::advect
\* ------------------------------------------------------------------------
\* "Set Interpolation Method": interp_func after the if/else-if/else chain.
SelectInterp(interp) ==
  IF interp = 0 THEN "linear_interpolate"
  ELSE IF interp = 1 THEN "spline_interpolate"
  ELSE "monotonic_cubic"

\* The "Memory Allocation" block: k[kn][0..2] where still NULL, and the
\* static initialiser of tmp.
AllocK(k, n, cn) ==
  StaticInit(k, [kn \in 1..4 |-> <<alloc2D(n + 1), alloc2D(n + 1), alloc2D(cn)>>])
AllocTmp(tmp, n, cn) ==
  StaticInit(tmp, <<alloc2D(n + 1), alloc2D(n + 1), alloc2D(cn)>>)

\* State x + b*k of a stage; the concentration takes the coefficient ca.
StageState(tmp, u, c, kk, ca, b) ==
  << op2D(tmp[1], u[1], kk[1], R(1), b),
     op2D(tmp[2], u[2], kk[2], R(1), b),
     op2D(tmp[3], c, kk[3], ca, b) >>

\* x = x + b*k on the caller's three fields.
Accumulate(f, kk, b) ==
  << op2D(f[1], f[1], kk[1], R(1), b),
     op2D(f[2], f[2], kk[2], R(1), b),
     op2D(f[3], f[3], kk[3], R(1), b) >>

\* In the operators below m is the memory the call works on: the caller's
\* fields u and c (which the globals gu and gc alias), and the statics.
\* A stage is the record [tmp, out, up]: the temporary state the stage was
\* evaluated on, the derivative stored in its k[kn], and the static up of
\* advect_diff it leaves.
StageResult(t, s) == [tmp |-> t, out |-> s.out, up |-> s.up]

\* k0 = f'(x): advect_step( method, u, c, n, cn, k[0], dt )
FirstStage(m, method, n, cn) ==
  StageResult(m.tmp, advect_diff(method, m.u, m.c, m.u, m.c, n, cn, m.k[1], m.up_diff))

\* advect_step( method, tmp, tmp[2], n, cn, k[kn], dt ) on the temporary t.
StageOn(m, method, n, cn, t, kn, up) ==
  StageResult(t, advect_diff(method, <<t[1], t[2]>>, t[3], m.u, m.c, n, cn, m.k[kn], up))

\* The three op2D into tmp with the step b, then the step on tmp.
NextStage(m, method, n, cn, prev, b, kn) ==
  StageOn(m, method, n, cn,
          StageState(prev.tmp, m.u, m.c, prev.out, Frac(1, 2), b), kn, prev.up)

\* The memory once the caller's fields hold y, k[0..] the derivatives ks, and
\* tmp and the static up the values of the last stage.
Updated(m, y, ks, last) ==
  [m EXCEPT !.u = <<y[1], y[2]>>, !.c = y[3],
            !.k = [kn \in 1..4 |-> IF kn <= Len(ks) THEN ks[kn] ELSE m.k[kn]],
            !.tmp = last.tmp, !.up_diff = last.up]

\* y = x + dt*k0
ForwardEulerUpdate(m, dt, r0) ==
  Updated(m, Accumulate(<<m.u[1], m.u[2], m.c>>, r0.out, dt), <<r0.out>>, r0)

\* integrator == 0
forward_euler(m, method, n, cn, dt) ==
  ForwardEulerUpdate(m, dt, FirstStage(m, method, n, cn))

\* y = x + 0.5*dt*(k0+k1)
ModifiedEulerUpdate(m, dt, r0, r1) ==
  Updated(m,
          Accumulate(Accumulate(<<m.u[1], m.u[2], m.c>>, r0.out, RMul(Frac(1, 2), dt)),
                     r1.out, RMul(Frac(1, 2), dt)),
          <<r0.out, r1.out>>, r1)

\* k1 from tmp = x + dt*k0
ModifiedEulerStage(m, method, n, cn, dt, r0) ==
  ModifiedEulerUpdate(m, dt, r0, NextStage(m, method, n, cn, r0, dt, 2))

\* integrator == 1
modified_euler(m, method, n, cn, dt) ==
  ModifiedEulerStage(m, method, n, cn, dt, FirstStage(m, method, n, cn))

\* y = x + dt*(k0+2*k1+2*k2+k3)/6
RungeKuttaUpdate(m, dt, r0, r1, r2, r3) ==
  Updated(m,
          Accumulate(Accumulate(Accumulate(Accumulate(<<m.u[1], m.u[2], m.c>>,
            r0.out, RDiv(dt, R(6))), r1.out, RDiv(dt, R(3))),
            r2.out, RDiv(dt, R(3))), r3.out, RDiv(dt, R(6))),
          <<r0.out, r1.out, r2.out, r3.out>>, r3)

\* k3 from tmp = x + dt*k2
RungeKuttaStage3(m, method, n, cn, dt, r0, r1, r2) ==
  RungeKuttaUpdate(m, dt, r0, r1, r2, NextStage(m, method, n, cn, r2, dt, 4))

\* k2 from tmp = x + 0.5*dt*k1
RungeKuttaStage2(m, method, n, cn, dt, r0, r1) ==
  RungeKuttaStage3(m, method, n, cn, dt, r0, r1,
                   NextStage(m, method, n, cn, r1, RMul(Frac(1, 2), dt), 3))

\* k1 from tmp = x + 0.5*dt*k0
RungeKuttaStage1(m, method, n, cn, dt, r0) ==
  RungeKuttaStage2(m, method, n, cn, dt, r0,
                   NextStage(m, method, n, cn, r0, RMul(Frac(1, 2), dt), 2))

\* integrator == 2
runge_kutta(m, method, n, cn, dt) ==
  RungeKuttaStage1(m, method, n, cn, dt, FirstStage(m, method, n, cn))

\* copy2D of k[0] into the caller's fields; r is what the step returned.
BackTraceCopy(m, r) ==
  [m EXCEPT !.u = <<copy2D(m.u[1], r.out[1]), copy2D(m.u[2], r.out[2])>>,
            !.c = copy2D(m.c, r.out[3]),
            !.k = [m.k EXCEPT ![1] = r.out],
            !.ux = r.st.ux, !.uy = r.st.uy, !.up = r.st.up, !.uc = r.st.uc,
            !.interp_func = r.kernel]

\* The else branch of advect (method >= 3): advect_step into k[0], then
\* copy2D of k[0] into the caller's fields.
back_trace(m, method, n, cn, dt) ==
  BackTraceCopy(m, advect_semiLagrangian(method, m.u, m.c, m.u, n, cn, m.k[1], dt,
                     [ux |-> m.ux, uy |-> m.uy, up |-> m.up, uc |-> m.uc],
                     m.interp_func))

\* The branches on method and integrator, on the memory m0 the head of
\* advect has prepared.
advect_branches(m0, method, integrator, n, cn, dt) ==
  IF method < 3
  THEN IF integrator = 0 THEN forward_euler(m0, method, n, cn, dt)
       ELSE IF integrator = 1 THEN modified_euler(m0, method, n, cn, dt)
       ELSE IF integrator = 2 THEN runge_kutta(m0, method, n, cn, dt)
       ELSE m0
  ELSE back_trace(m0, method, n, cn, dt)

\* void advect::advect( method, interp, integrator, u, c, n, cn, dt )
advect(m, method, interp, integrator, n, cn, dt) ==
  advect_branches([m EXCEPT !.gn = n, !.gcn = cn,
                            !.k = AllocK(m.k, n, cn), !.tmp = AllocTmp(m.tmp, n, cn),
                            !.interp_func = SelectInterp(interp)],
                  method, integrator, n, cn, dt)

\* ------------------------------------------------------------------------
\* Array elements the loops touch
\* ------------------------------------------------------------------------
\* A location <<b, <<i, j>>>> is element [i][j] of array b.  Arrays are named
\* <<"u", q>> and <<"c", 0>> (the caller's fields, which gu and gc alias),
\* <<"tmp", q>>, <<"k0", q>> .. <<"k3", q>> (statics of advect),
\* <<"up_diff", q>> (static up of advect_diff) and <<"ux", q>>, <<"uy", q>>,
\* <<"up", q>>, <<"uc", q>> (statics of advect_semiLagrangian).
Loc(b, i, j) == <<b, <<i, j>>>>

\* The element u_ref(dir, i, j) returns.
u_ref_loc(gn, dir, i, j) ==
  IF dir = 0
  THEN Loc(<<"u", 0>>, IMax(0, IMin(gn, i)), IMax(0, IMin(gn - 1, j)))
  ELSE Loc(<<"u", 1>>, IMax(0, IMin(gn - 1, i)), IMax(0, IMin(gn, j)))

\* The element c_ref(i, j) reads, none outside the grid.
c_ref_locs(gcn, i, j) ==
  IF i < 0 \/ i > gcn - 1 \/ j < 0 \/ j > gcn - 1 THEN {} ELSE {Loc(<<"c", 0>>, i, j)}

\* d[i][j], d[i+1][j], d[i][j+1], d[i+1][j+1] of linear_interpolate.
linear_interpolate_locs(b, width, height, x0, y0) ==
  LET i == LinearBase(width, Clamp0(width, x0))
      j == LinearBase(height, Clamp0(height, y0))
  IN  { Loc(b, i + a[1], j + a[2]) : a \in {0, 1} \X {0, 1} }

\* The 4x4 gather of monotonic_cubic and spline_interpolate.
Gather4_locs(b, width, height, x0, y0) ==
  LET ix == RTrunc(Clamp0(width, x0))
      iy == RTrunc(Clamp0(height, y0))
  IN  { Loc(b, ClampIdx(width, ix - 1 + a[1]), ClampIdx(height, iy - 1 + a[2])) :
          a \in (0..3) \X (0..3) }

\* The elements a call through interp_func reads.
InterpLocs(kernel, b, width, height, x, y) ==
  IF kernel = "linear_interpolate"
  THEN linear_interpolate_locs(b, width, height, x, y)
  ELSE Gather4_locs(b, width, height, x, y)

\* The four u_ref samples averaged into the cross velocity of an x-face and
\* of a y-face.
CrossLocsX(gn, i, j) ==
  { u_ref_loc(gn, 1, i - 1, j), u_ref_loc(gn, 1, i, j),
    u_ref_loc(gn, 1, i - 1, j + 1), u_ref_loc(gn, 1, i, j + 1) }
CrossLocsY(gn, i, j) ==
  { u_ref_loc(gn, 0, i, j - 1), u_ref_loc(gn, 0, i, j),
    u_ref_loc(gn, 0, i + 1, j), u_ref_loc(gn, 0, i + 1, j - 1) }

\* The seven-point stencils handed to advdiff along x and along y.
StencilLocs(gn, dir, i, j) ==
  { u_ref_loc(gn, dir, i + s, j) : s \in -3..3 } \cup
  { u_ref_loc(gn, dir, i, j + s) : s \in -3..3 }
ConcStencilLocs(gcn, i, j) ==
  UNION { c_ref_locs(gcn, i + s, j) \cup c_ref_locs(gcn, i, j + s) : s \in -3..3 }

\* The loops of advect_diff( method, u, c, n, cn, out, dt ), where the
\* argument u is the array src and out is the array dst.
DiffLoops == <<"xflow", "yflow", "project", "conc">>

DiffCells(loop, gn, gcn) ==
  CASE loop = "xflow"   -> FOR_EVERY_X_FLOW(gn)
    [] loop = "yflow"   -> FOR_EVERY_Y_FLOW(gn)
    [] loop = "project" -> FOR_EVERY_CELL(gn)
    [] loop = "conc"    -> FOR_EVERY_CELL(gcn)

DiffReads(loop, src, gn, gcn, i, j) ==
  CASE loop = "xflow" ->
         {Loc(<<src, 0>>, i, j)} \cup CrossLocsX(gn, i, j) \cup StencilLocs(gn, 0, i, j)
    [] loop = "yflow" ->
         {Loc(<<src, 1>>, i, j)} \cup CrossLocsY(gn, i, j) \cup StencilLocs(gn, 1, i, j)
    [] loop = "project" ->
         { Loc(<<src, 0>>, i, j), Loc(<<src, 0>>, i + 1, j),
           Loc(<<src, 1>>, i, j), Loc(<<src, 1>>, i, j + 1) }
    [] loop = "conc" ->
         linear_interpolate_locs(<<"up_diff", 0>>, gn, gn, Frac(i * gn, gcn), Frac(j * gn, gcn))
         \cup linear_interpolate_locs(<<"up_diff", 1>>, gn, gn, Frac(i * gn, gcn), Frac(j * gn, gcn))
         \cup ConcStencilLocs(gcn, i, j)

DiffWrites(loop, dst, i, j) ==
  CASE loop = "xflow"   -> {Loc(<<dst, 0>>, i, j)}
    [] loop = "yflow"   -> {Loc(<<dst, 1>>, i, j)}
    [] loop = "project" -> {Loc(<<"up_diff", 0>>, i, j), Loc(<<"up_diff", 1>>, i, j)}
    [] loop = "conc"    -> {Loc(<<dst, 2>>, i, j)}

\* The loops of advect_semiLagrangian( method, u, c, n, cn, out, dt ) on the
\* caller's fields: the four velocity loops, then the three back-traces.
TraceLoops == <<"ux", "uy", "up", "uc", "trace0", "trace1", "trace2">>

\* <<d0, width, height, u>> of the three semiLagrangian / maccormack calls.
TraceField(loop, gn, gcn) ==
  CASE loop = "trace0" -> << <<"u", 0>>, gn + 1, gn, "ux" >>
    [] loop = "trace1" -> << <<"u", 1>>, gn, gn + 1, "uy" >>
    [] loop = "trace2" -> << <<"c", 0>>, gcn, gcn, "uc" >>

\* The component of out a back-trace loop writes.
TraceComponent(loop) ==
  CASE loop = "trace0" -> 0 [] loop = "trace1" -> 1 [] loop = "trace2" -> 2

TraceCells(loop, gn, gcn) ==
  CASE loop = "ux" -> FOR_EVERY_X_FLOW(gn)
    [] loop = "uy" -> FOR_EVERY_Y_FLOW(gn)
    [] loop = "up" -> FOR_EVERY_CELL(gn)
    [] loop = "uc" -> FOR_EVERY_CELL(gcn)
    [] OTHER -> Cells(TraceField(loop, gn, gcn)[2], TraceField(loop, gn, gcn)[3])

\* One iteration of semiLagrangian: the point i - gn*u*dt is i - disp[1].
semiLagrangian_locs(kernel, f, disp, i, j) ==
  {Loc(<<f[4], 0>>, i, j), Loc(<<f[4], 1>>, i, j)} \cup
  InterpLocs(kernel, f[1], f[2], f[3], RSub(R(i), disp[1]), RSub(R(j), disp[2]))

\* One iteration of maccormack: disp is dt*gn*u[.][i][j] and back is
\* dt*gn*u_hat, dt*gn*v_hat.
maccormack_locs(kernel, f, disp, back, i, j) ==
  LET x  == RMin(R(f[2] - 1), RMax(R(0), RSub(R(i), disp[1])))
      y  == RMin(R(f[3] - 1), RMax(R(0), RSub(R(j), disp[2])))
      i0 == MacBase(f[2], x)
      j0 == MacBase(f[3], y)
  IN  {Loc(<<f[4], 0>>, i, j), Loc(<<f[4], 1>>, i, j), Loc(f[1], i, j)} \cup
      InterpLocs(kernel, f[1], f[2], f[3], x, y) \cup
      InterpLocs(kernel, <<f[4], 0>>, f[2], f[3], x, y) \cup
      InterpLocs(kernel, <<f[4], 1>>, f[2], f[3], x, y) \cup
      InterpLocs(kernel, f[1], f[2], f[3], RAdd(x, back[1]), RAdd(y, back[2])) \cup
      { Loc(f[1], i0 + a[1], j0 + a[2]) : a \in {0, 1} \X {0, 1} }

\* The caller's own fields as the array the back-traces write.
OutArrayInPlace(q) == IF q = 2 THEN <<"c", 0>> ELSE <<"u", q>>
\* The array advect hands to advect_step as out on the back-trace path:
\* component q of k[0].
OutArray(q) == <<"k0", q>>

TraceReads(loop, order, kernel, gn, gcn, disp, back, i, j) ==
  CASE loop = "ux" -> {Loc(<<"u", 0>>, i, j)} \cup CrossLocsX(gn, i, j)
    [] loop = "uy" -> {Loc(<<"u", 1>>, i, j)} \cup CrossLocsY(gn, i, j)
    [] loop = "up" -> { Loc(<<"u", 0>>, i, j), Loc(<<"u", 0>>, i + 1, j),
                        Loc(<<"u", 1>>, i, j), Loc(<<"u", 1>>, i, j + 1) }
    [] loop = "uc" ->
         InterpLocs(kernel, <<"up", 0>>, gn, gn, Frac(i * gn, gcn), Frac(j * gn, gcn)) \cup
         InterpLocs(kernel, <<"up", 1>>, gn, gn, Frac(i * gn, gcn), Frac(j * gn, gcn))
    [] OTHER ->
         IF order = 1
         THEN semiLagrangian_locs(kernel, TraceField(loop, gn, gcn), disp, i, j)
         ELSE maccormack_locs(kernel, TraceField(loop, gn, gcn), disp, back, i, j)

TraceWrites(loop, i, j) ==
  CASE loop = "ux" -> {Loc(<<"ux", 0>>, i, j), Loc(<<"ux", 1>>, i, j)}
    [] loop = "uy" -> {Loc(<<"uy", 0>>, i, j), Loc(<<"uy", 1>>, i, j)}
    [] loop = "up" -> {Loc(<<"up", 0>>, i, j), Loc(<<"up", 1>>, i, j)}
    [] loop = "uc" -> {Loc(<<"uc", 0>>, i, j), Loc(<<"uc", 1>>, i, j)}
    [] OTHER -> {Loc(OutArray(TraceComponent(loop)), i, j)}

\* Rows and columns of array b when the statics were allocated for the
\* resolution r = <<n, cn>>: alloc2D(m) is m x m, the caller's fields are
\* (n+1) x n, n x (n+1) and cn x cn.
ArrayDims(b, r) ==
  CASE b = <<"u", 0>> -> <<r[1] + 1, r[1]>>
    [] b = <<"u", 1>> -> <<r[1], r[1] + 1>>
    [] b = <<"c", 0>> -> <<r[2], r[2]>>
    [] b[1] \in {"up_diff", "up"} -> <<r[1], r[1]>>
    [] b[1] \in {"ux", "uy"} -> <<r[1] + 1, r[1] + 1>>
    [] b[1] = "uc" -> <<r[2], r[2]>>
    [] OTHER -> IF b[2] = 2 THEN <<r[2], r[2]>> ELSE <<r[1] + 1, r[1] + 1>>

InBounds(l, dims) ==
  l[2][1] >= 0 /\ l[2][1] < dims[1] /\ l[2][2] >= 0 /\ l[2][2] < dims[2]

\* ------------------------------------------------------------------------
\* State
\* ------------------------------------------------------------------------
VARIABLES
  mem,                \* the caller's fields u, c, the globals and the statics
  n, cn,              \* the resolutions of the caller's fields
  pc, call, pre,      \* "ready"/"done", the arguments and the fields of the call
  ka, kx, ky, kdone,  \* stencil, offset and result of a 1D kernel evaluation
  statics, ncalls,    \* interp_func and the resolutions the statics were allocated for
  effect,             \* what the latest call touched
  buf, loop, finished \* array contents, running loop and its completed iterations

fvars == <<mem, n, cn, pc, call, pre>>
kvars == <<ka, kx, ky, kdone>>
mvars == <<statics, ncalls, effect>>
pvars == <<buf, loop, finished>>
vars == <<fvars, kvars, mvars, pvars>>

\* ------------------------------------------------------------------------
\* Specification of the 1D monotonic cubic kernel alone
\* ------------------------------------------------------------------------
Samples == 0..MaxSample
\* Fractional offsets x - (int)x handed to the kernel, and the end point 1.
Offsets == {Frac(0, 1), Frac(1, 4), Frac(1, 2), Frac(3, 4), Frac(1, 1)}

NoFields == mem = <<>> /\ n = 0 /\ cn = 0 /\ pc = "none" /\ call = <<>> /\ pre = <<>>

NoKernel == ka = <<>> /\ kx = R(0) /\ ky = R(0) /\ kdone = TRUE

NoStatics == statics = <<>> /\ ncalls = 0 /\ effect = <<>>

NoLoops == buf = <<>> /\ loop = 0 /\ finished = {}

CubicInit ==
  /\ ka \in {<<R(a0), R(a1), R(a2), R(a3)>> : a0 \in {0, 1}, a1 \in {0, 1}, a2 \in Samples, a3 \in Samples}
  /\ kx \in Offsets
  /\ ky = R(0)
  /\ kdone = FALSE
  /\ NoFields
  /\ NoStatics
  /\ NoLoops

EvalCubic ==
  /\ ~kdone
  /\ ky' = monotonic_cubic_4(ka, kx)
  /\ kdone' = TRUE
  /\ UNCHANGED <<ka, kx, fvars, mvars, pvars>>

CubicNext == EvalCubic
SpecCubic == CubicInit /\ [][CubicNext]_vars

\* ------------------------------------------------------------------------
\* Specification of one advect call on fields of resolution 2..MaxN
\* ------------------------------------------------------------------------
Pattern(name, i, j) ==
  CASE name = "zero"  -> R(0)
    [] name = "one"   -> R(1)
    [] name = "minus" -> R(-1)
    [] name = "two"   -> R(2)
    [] name = "shear" -> R(i - j)
    [] name = "ramp"  -> R(i + 2 * j)
    [] name = "spike" -> IF i = 1 /\ j = 0 THEN R(2) ELSE R(0)

Field(w, h, name) == [p \in Cells(w, h) |-> Pattern(name, p[1], p[2])] @@ <<>>

VelocityPatterns ==
  { <<"zero", "zero">>, <<"minus", "one">>, <<"shear", "one">> }
ConcentrationPatterns == { "one", "ramp", "spike" }

Resolutions == 2..MaxN
Dts == { Frac(1, 4), Frac(1, 2) }
\* Selector values handed to advect, the invalid ones -1, 3 and 5 included.
Methods == { -1, 0, 1, 2, 3, 4, 5 }
Interps == { 0, 1, 2, 3 }
Integrators == { 0, 1, 2, 3 }

IsZeroField(f) == \A p \in DOMAIN f : f[p][1] = 0
\* weno5calc squares 1.0e-6 + r, which has no 32-bit rational; WENO5 is
\* evaluated only where its transport velocity is zero, where the product
\* -u*(...) does not need the value.
EulerMethods(vel) ==
  IF IsZeroField(vel[1]) /\ IsZeroField(vel[2])
  THEN { m \in Methods : m < 3 } ELSE { m \in Methods : m < 3 /\ m # 1 }

\* Concentration resolutions paired with velocity resolution m.  The two grids
\* differ only under a uniform velocity: a sheared velocity sampled between
\* its own grid points gives departure points whose cubic weights leave the
\* 32-bit range of the exact arithmetic.
ConcentrationResolutions(m, vp) ==
  IF vp[1] = "shear" \/ vp[2] = "shear" THEN {m} ELSE {m, m + 1}

Init ==
  /\ n \in Resolutions
  /\ \E vp \in VelocityPatterns, cp \in ConcentrationPatterns :
       /\ cn \in ConcentrationResolutions(n, vp)
       /\ mem = [u |-> <<Field(n + 1, n, vp[1]), Field(n, n + 1, vp[2])>>,
              c |-> Field(cn, cn, cp),
              gn |-> 0, gcn |-> 0, interp_func |-> "NULL",
              k |-> <<>>, tmp |-> <<>>, up_diff |-> <<>>,
              ux |-> <<>>, uy |-> <<>>, up |-> <<>>, uc |-> <<>>]
  /\ pc = "ready"
  /\ call = <<>>
  /\ pre = <<>>
  /\ NoKernel
  /\ NoStatics
  /\ NoLoops

\* One call advect(method, interp, integrator, u, c, n, cn, dt).
Call(method, interp, integrator, dt) ==
  /\ pc = "ready"
  /\ pc' = "done"
  /\ call' = [method |-> method, interp |-> interp, integrator |-> integrator, dt |-> dt]
  /\ pre' = [u |-> mem.u, c |-> mem.c]
  /\ mem' = advect(mem, method, interp, integrator, n, cn, dt)
  /\ UNCHANGED <<n, cn, kvars, mvars, pvars>>

\* The Eulerian path calls linear_interpolate directly and never reads
\* interp_func: it is given one valid and one invalid interp.
EulerInterps == { 0, 3 }
\* The back-trace path never reads the integrator: one valid, one invalid.
TraceIntegrators == { 1, 3 }

\* The selectors of one call.  With method < 3 every integrator is taken (0, 1,
\* 2 and the unmatched 3); with method >= 3 the integrator is not read.
CallSelectors(vel) ==
  { s \in Methods \X Interps \X Integrators :
      IF s[1] < 3
      THEN s[1] \in EulerMethods(vel) /\ s[2] \in EulerInterps
      ELSE s[3] \in TraceIntegrators }

Advect ==
  \E s \in CallSelectors(mem.u), dt \in Dts : Call(s[1], s[2], s[3], dt)

Next == Advect

Spec == Init /\ [][Next]_vars

\* ------------------------------------------------------------------------
\* Specification of a sequence of advect calls at the level of array indices
\* ------------------------------------------------------------------------
\* Resolutions a call may pass; n >= 1 and cn >= 1 are the well-formed ones.
MemResolutions == 1..MaxN
\* dt*gn*u of a call, in cells: a sample value is an input at this level.
Displacements == { Frac(-3, 2), Frac(1, 2) }

\* The stages <<u argument, out argument>> of advect_step on the Eulerian
\* path: k[0] from the caller's fields, the later ones from tmp.
Stages(integrator) ==
  CASE integrator = 0 -> << <<"u", "k0">> >>
    [] integrator = 1 -> << <<"u", "k0">>, <<"tmp", "k1">> >>
    [] integrator = 2 -> << <<"u", "k0">>, <<"tmp", "k1">>, <<"tmp", "k2">>, <<"tmp", "k3">> >>
    [] OTHER -> << >>

\* Every element an Eulerian call reads or writes in its loops.
DiffAccesses(integrator, gn, gcn) ==
  UNION { UNION { UNION { DiffReads(DiffLoops[l], Stages(integrator)[s][1], gn, gcn, p[1], p[2])
                          \cup DiffWrites(DiffLoops[l], Stages(integrator)[s][2], p[1], p[2]) :
                          p \in DiffCells(DiffLoops[l], gn, gcn) } :
                  l \in DOMAIN DiffLoops } :
          s \in DOMAIN Stages(integrator) }

\* Every element a back-trace call reads or writes in its loops.
TraceAccesses(order, kernel, gn, gcn, disp, back) ==
  UNION { UNION { TraceReads(TraceLoops[l], order, kernel, gn, gcn, disp, back, p[1], p[2])
                  \cup TraceWrites(TraceLoops[l], p[1], p[2]) :
                  p \in TraceCells(TraceLoops[l], gn, gcn) } :
          l \in DOMAIN TraceLoops }

\* Selector values of the index-level calls.  The loops of advect_diff touch
\* the same elements whatever method < 3 and interp are; RK4 repeats the
\* stage of ModifiedEuler on further k arrays.
EulerIntegrators == {0, 1, 3}
TraceMethods == {3, 4, 5}

\* The resolution array b was allocated for: the call's own for the caller's
\* fields, the recorded one for a static.
AllocatedFor(b, st, r) ==
  CASE b[1] \in {"u", "c"} -> r
    [] b[1] = "tmp" -> st.tmp
    [] b[1] = "up_diff" -> st.up_diff
    [] b[1] \in {"ux", "uy", "up", "uc"} -> st.trace
    [] OTHER -> st.k

\* What a call leaves to look at: the arguments of the call before it, the
\* kernel interp_func points to while the loops run, the accesses outside
\* their array, and the statics whose size is not the one this call needs.
Effect(st, r, acc) ==
  [ previous |-> call,
    kernel |-> st.interp_func,
    oob |-> { l \in acc : ~InBounds(l, ArrayDims(l[1], AllocatedFor(l[1], st, r))) },
    mismatched |-> { l[1] : l \in { a \in acc :
                       ArrayDims(a[1], AllocatedFor(a[1], st, r)) # ArrayDims(a[1], r) } } ]

MemInit ==
  /\ statics = [interp_func |-> "NULL", k |-> <<>>, tmp |-> <<>>, up_diff |-> <<>>, trace |-> <<>>]
  /\ ncalls = 0
  /\ effect = <<>>
  /\ mem = <<>> /\ n = 0 /\ cn = 0 /\ pc = "ready" /\ call = <<>> /\ pre = <<>>
  /\ NoKernel
  /\ NoLoops

\* The part of advect before the branch on method: the statics k and tmp
\* and the "Set Interpolation Method" chain.
MemEnter(r, interp) ==
  [statics EXCEPT !.k = StaticInit(@, r), !.tmp = StaticInit(@, r),
                  !.interp_func = SelectInterp(interp)]

MemReturn(method, interp, integrator, r, st, acc) ==
  /\ ncalls < MaxCalls
  /\ ncalls' = ncalls + 1
  /\ n' = r[1] /\ cn' = r[2]
  /\ call' = [method |-> method, interp |-> interp, integrator |-> integrator]
  /\ statics' = st
  /\ effect' = Effect(st, r, acc)
  /\ pc' = "done"
  /\ UNCHANGED <<mem, pre, kvars, pvars>>

\* advect with method < 3.
MemCallEuler ==
  \E interp \in EulerInterps, integrator \in EulerIntegrators,
     r \in MemResolutions \X MemResolutions :
    LET st0 == MemEnter(r, interp)
        st  == IF Stages(integrator) = << >> THEN st0
               ELSE [st0 EXCEPT !.up_diff = StaticInit(@, r)]
    IN  MemReturn(0, interp, integrator, r, st, DiffAccesses(integrator, r[1], r[2]))

\* advect with method >= 3: the uniform displacement disp along x, -disp
\* along y, and disp along both for the return trace of maccormack.
MemCallBackTrace ==
  \E method \in TraceMethods, interp \in Interps, r \in MemResolutions \X MemResolutions,
     disp \in Displacements :
    LET st0 == MemEnter(r, interp)
        st  == [st0 EXCEPT !.trace = StaticInit(@, r),
                           !.interp_func = StrategyKernel(method, @)]
    IN  MemReturn(method, interp, 0, r, st,
                  TraceAccesses(StrategyOrder(method), st.interp_func, r[1], r[2],
                                <<disp, RNeg(disp)>>, <<disp, disp>>))

MemNext == MemCallEuler \/ MemCallBackTrace
SpecMem == MemInit /\ [][MemNext]_vars

\* ------------------------------------------------------------------------
\* Specification of one advect call whose loop iterations run in any order
\* ------------------------------------------------------------------------
\* OPENMP_FOR runs the iterations of the loop that follows it in parallel
\* and joins them before the next statement.  An iteration is one step here;
\* the steps of a loop are taken in any order.  A written element holds what
\* its iteration read: the set of <<location, value>> pairs.
ParArrays ==
  { <<"u", 0>>, <<"u", 1>>, <<"c", 0>>, <<"k0", 0>>, <<"k0", 1>>, <<"k0", 2>> } \cup
  ({"up_diff", "ux", "uy", "up", "uc"} \X {0, 1})

Locations(r) ==
  UNION { { Loc(b, p[1], p[2]) : p \in Cells(ArrayDims(b, r)[1], ArrayDims(b, r)[2]) } :
          b \in ParArrays }

Snapshot(b, reads) == { <<l, b[l]>> : l \in reads }

\* One iteration: every element it writes is computed from what it reads.
RunIteration(b, reads, writes) ==
  Stored([l \in DOMAIN b |-> IF l \in writes THEN Snapshot(b, reads) ELSE b[l]])

\* The loops of the call in progress (ForwardEuler when method < 3).
ParLoops == IF call.method < 3 THEN DiffLoops ELSE TraceLoops
ParCells(l) ==
  IF call.method < 3 THEN DiffCells(DiffLoops[l], n, cn) ELSE TraceCells(TraceLoops[l], n, cn)
ParReads(l, p) ==
  IF call.method < 3
  THEN DiffReads(DiffLoops[l], "u", n, cn, p[1], p[2])
  ELSE TraceReads(TraceLoops[l], StrategyOrder(call.method),
                  StrategyKernel(call.method, SelectInterp(call.interp)), n, cn,
                  <<call.disp, RNeg(call.disp)>>, <<call.disp, call.disp>>, p[1], p[2])
ParWrites(l, p) ==
  IF call.method < 3 THEN DiffWrites(DiffLoops[l], "k0", p[1], p[2])
  ELSE TraceWrites(TraceLoops[l], p[1], p[2])

ParInit ==
  /\ n \in Resolutions
  /\ cn = n
  /\ call \in [method : {0, 3, 4}, interp : {0, 2}, disp : Displacements]
  /\ buf = Stored([l \in Locations(<<n, cn>>) |-> {}])
  /\ loop = 1
  /\ finished = {}
  /\ pc = "loops"
  /\ mem = <<>> /\ pre = <<>>
  /\ NoKernel
  /\ NoStatics

\* One iteration of the running loop.
Iterate ==
  /\ pc = "loops"
  /\ \E p \in ParCells(loop) \ finished :
       /\ buf' = RunIteration(buf, ParReads(loop, p), ParWrites(loop, p))
       /\ finished' = finished \cup {p}
  /\ UNCHANGED <<loop, pc, mem, n, cn, call, pre, kvars, mvars>>

\* The join at the end of a parallel loop.
Barrier ==
  /\ pc = "loops"
  /\ finished = ParCells(loop)
  /\ finished' = {}
  /\ IF loop < Len(ParLoops)
     THEN loop' = loop + 1 /\ pc' = pc
     ELSE loop' = loop /\ pc' = "write_back"
  /\ UNCHANGED <<buf, mem, n, cn, call, pre, kvars, mvars>>

\* The element of k[0] that op2D or copy2D combines with element l of the
\* caller's fields.
StageElement(l) == <<IF l[1][1] = "c" THEN <<"k0", 2>> ELSE <<"k0", l[1][2]>>, l[2]>>

\* The caller's fields after the loops: op2D(u, u, k[0], 1.0, dt) on the
\* Eulerian path, copy2D(u, k[0]) on the back-trace path.
WriteBackOf(b) ==
  Stored([l \in DOMAIN b |->
            IF l[1][1] \in {"u", "c"}
            THEN IF call.method < 3 THEN Snapshot(b, {l, StageElement(l)})
                 ELSE b[StageElement(l)]
            ELSE b[l]])

WriteBack ==
  /\ pc = "write_back"
  /\ pc' = "returned"
  /\ buf' = WriteBackOf(buf)
  /\ UNCHANGED <<loop, finished, mem, n, cn, call, pre, kvars, mvars>>

ParNext == Iterate \/ Barrier \/ WriteBack
SpecPar == ParInit /\ [][ParNext]_vars

\* ------------------------------------------------------------------------
\* Claims
\* ------------------------------------------------------------------------
Min4(a) == RMin(RMin(RMin(a[1], a[2]), a[3]), a[4])
Max4(a) == RMax(RMax(RMax(a[1], a[2]), a[3]), a[4])

Done == pc = "done"
FieldsUnchanged == mem.u = pre.u /\ mem.c = pre.c
IsUniform(f) == \A p, q \in DOMAIN f : f[p] = f[q]

\* C1: when every x-velocity and y-velocity sample is zero, one call of
\* advect leaves every velocity and concentration sample as it was, for
\* every method, integrator, interpolation kernel, concentration and dt.
C1_ZeroVelocityKeepsFields ==
  (Done /\ IsZeroField(pre.u[1]) /\ IsZeroField(pre.u[2])) => FieldsUnchanged

\* A zero-velocity MacCormack call on a concentration that is not uniform.
C1_Witness ==
  /\ Done /\ IsZeroField(pre.u[1]) /\ IsZeroField(pre.u[2])
  /\ call.method = 4 /\ ~IsUniform(pre.c)

\* The fields the MacCormack step traces: <<previous field, width, height,
\* trace velocity, written field>> for x-velocity, y-velocity, concentration.
MacFields ==
  << <<pre.u[1], n + 1, n, mem.ux, mem.k[1][1]>>,
     <<pre.u[2], n, n + 1, mem.uy, mem.k[1][2]>>,
     <<pre.c, cn, cn, mem.uc, mem.k[1][3]>> >>

MacInterval(f, i, j) ==
  MacNeighbours(f[1], f[2], f[3], MacPoint(f[2], f[3], f[4], call.dt, n, i, j))

\* C2: every value the MacCormack step writes lies within [min, max] of the
\* four previous-field values around the cell's clamped backward-traced
\* point, so a correction r outside that interval is never written.
C2_MacCormackWithinNeighbours ==
  (Done /\ call.method = 4) =>
    \A q \in 1..3 : \A p \in Cells(MacFields[q][2], MacFields[q][3]) :
      LET nb == MacInterval(MacFields[q], p[1], p[2])
      IN  RLe(Min4(nb), MacFields[q][5][p]) /\ RLe(MacFields[q][5][p], Max4(nb))

\* A MacCormack call in which some cell's correction r falls outside the
\* interval of its four neighbours.
C2_Witness ==
  /\ Done /\ call.method = 4
  /\ \E p \in Cells(cn, cn) :
       LET nb == MacInterval(MacFields[3], p[1], p[2])
           r  == MacCorrection("spline_interpolate", pre.c, cn, cn, mem.uc, call.dt, n, p[1], p[2])
       IN  RLt(r, Min4(nb)) \/ RLt(Max4(nb), r)

InvalidSelector ==
  \/ call.method \notin {0, 1, 2, 3, 4}
  \/ call.integrator \notin {0, 1, 2}
  \/ call.interp \notin {0, 1, 2}

\* C5 as stated: a call with an invalid method, integrator or interp applies
\* no advection, so the fields after the call equal the fields before it.
C5_InvalidSelectorIsNoOp ==
  (Done /\ InvalidSelector) => FieldsUnchanged

\* C5: a call with method < 3 whose method is below 0 (advdiff contributes
\* 0.0) or whose integrator is none of 0, 1, 2 (no branch runs) leaves the
\* velocity and concentration fields as they were.
C5_ZeroContributionKeepsFields ==
  (Done /\ call.method < 3 /\ (call.method < 0 \/ call.integrator \notin {0, 1, 2}))
    => FieldsUnchanged

\* Method -1 under RK4 on a moving, non-uniform concentration.
C5_Witness ==
  /\ Done /\ call.method = -1 /\ call.integrator = 2
  /\ ~IsZeroField(pre.u[1]) /\ ~IsUniform(pre.c)

UpwindCall == Done /\ call.method = 0 /\ call.integrator \in {0, 1, 2}

InteriorCells(m) == { p \in Cells(m, m) : p[1] > 0 /\ p[1] < m - 1 /\ p[2] > 0 /\ p[2] < m - 1 }

LastStage == IF call.integrator = 1 THEN 2 ELSE 4

\* C8: under ModifiedEuler or RK4 with an Eulerian method a later stage
\* derivative is the derivative operator evaluated on the temporary state:
\* stencils and transport velocities are all read from tmp.
C8_StageDerivativeFromTmp ==
  (Done /\ call.method \in {0, 1, 2} /\ call.integrator \in {1, 2}) =>
    LET tv == <<mem.tmp[1], mem.tmp[2]>>
    IN  mem.k[LastStage] =
          advect_diff(call.method, tv, mem.tmp[3], tv, mem.tmp[3], n, cn,
                      mem.k[LastStage], mem.up_diff).out

Returned == ncalls > 0
ValidSelectors ==
  call.method \in {0, 1, 2, 3, 4} /\ call.interp \in {0, 1, 2} /\ call.integrator \in {0, 1, 2}

\* C3: in a well-formed call (n >= 1, cn >= 1, valid selectors, scratch
\* buffers sized for this n and cn) every index the samplers, the kernels,
\* the projection loops and the MacCormack neighbourhood use lies within the
\* array it indexes.
C3_IndicesInBounds ==
  (Returned /\ ValidSelectors /\ effect.mismatched = {}) => effect.oob = {}

\* C4: whenever a call reads or writes a scratch buffer, the buffer has the
\* dimensions the call's n and cn ask for, a change of resolution having
\* reallocated it.
C4_ScratchMatchesResolution ==
  Returned => effect.mismatched = {}

KernelNamed(interp) ==
  CASE interp = 0 -> "linear_interpolate"
    [] interp = 1 -> "spline_interpolate"
    [] OTHER -> "monotonic_cubic"

\* C10: the kernel in effect while a call runs its loops is the one its own
\* interp names, or the clamped cubic spline when its method is MacCormack,
\* whatever the calls before it were.
C10_KernelFromOwnArguments ==
  Returned =>
    effect.kernel = IF call.method = 4 THEN "spline_interpolate" ELSE KernelNamed(call.interp)

\* A Semi-Lagrangian call with the Linear kernel right after a MacCormack
\* call that was given the Linear kernel too.
C10_Witness ==
  /\ ncalls = 2 /\ effect.previous.method = 4 /\ effect.previous.interp = 0
  /\ call.method = 3 /\ call.interp = 0

\* The iterations of a loop in the order of the sequential for loop.
RECURSIVE InOrder(_)
InOrder(S) ==
  IF S = {} THEN <<>>
  ELSE LET p == CHOOSE a \in S : \A q \in S : a[2] < q[2] \/ (a[2] = q[2] /\ a[1] <= q[1])
       IN  <<p>> \o InOrder(S \ {p})

RECURSIVE RunLoop(_, _, _)
RunLoop(b, l, cells) ==
  IF cells = <<>> THEN b
  ELSE RunLoop(RunIteration(b, ParReads(l, Head(cells)), ParWrites(l, Head(cells))),
               l, Tail(cells))

RECURSIVE RunLoops(_, _)
RunLoops(b, l) ==
  IF l > Len(ParLoops) THEN b ELSE RunLoops(RunLoop(b, l, InOrder(ParCells(l))), l + 1)

\* What the call leaves in memory when every loop runs sequentially.
SequentialResult ==
  WriteBackOf(RunLoops(Stored([l \in DOMAIN buf |-> {}]), 1))

\* C9: within a parallel loop no iteration reads or writes an element that
\* another iteration writes, the loops before the running one have written
\* all their output, and so whatever the order of the iterations the call
\* leaves what the sequential loops leave.
C9_LoopsRaceFree ==
  /\ pc = "loops" =>
       /\ \A p, q \in ParCells(loop) :
            p # q => /\ ParReads(loop, p) \cap ParWrites(loop, q) = {}
                     /\ ParWrites(loop, p) \cap ParWrites(loop, q) = {}
       /\ \A l \in 1..(loop - 1) : \A p \in ParCells(l) : \A w \in ParWrites(l, p) :
            buf[w] # {}
  /\ pc = "returned" => buf = SequentialResult

\* The concentration back-trace of a MacCormack call with some iterations
\* done and others still to run.
C9_Witness ==
  /\ pc = "loops" /\ call.method = 4 /\ loop = 7
  /\ finished # {} /\ finished # ParCells(loop)

\* C7: for every 4-sample stencil and every offset 0 <= x <= 1 the value
\* monotonic_cubic_4 returns lies in [min(a[0..3]), max(a[0..3])].
C7_CubicWithinStencilRange ==
  kdone /\ ka # <<>> => RLe(Min4(ka), ky) /\ RLe(ky, Max4(ka))

====
